---- MODULE Spec2Model ----
(***************************************************************************)
(* Model of pylauncher.py: the desktop-entry repository, the fuzzy scorer, *)
(* the filter/rank step and the selection loop of LauncherUI.              *)
(*                                                                         *)
(* Strings are sequences of one-character strings.  Positions inside a     *)
(* string are 0-based as in Python; s[p + 1] reads the character at        *)
(* Python position p.  An Optional[int] is <<>> (None) or <<n>>.           *)
(***************************************************************************)
EXTENDS Integers, Sequences, FiniteSets, TLC

VARIABLES
    pc,        \* position of the program: "collect", "running", "done", ...
    base,      \* collect_desktop_entries: index in paths of the next directory
    seen_names,\* collect_desktop_entries: the names collected so far
    entries,   \* the list collect_desktop_entries builds; LauncherUI.entries
    query,     \* LauncherUI.query
    filtered,  \* LauncherUI.filtered, list of (entry, score)
    selected,  \* LauncherUI.selected
    terminal,  \* LauncherUI.terminal, result of find_terminal
    ch,        \* the value last returned by stdscr.get_wch()
    spawned,   \* argument vectors of the processes started by Popen
    sq,        \* scorer harness: query argument of fuzzy_score
    st,        \* scorer harness: text argument of fuzzy_score
    sres       \* scorer harness: value returned by fuzzy_score

vars == <<pc, base, seen_names, entries, query, filtered, selected, terminal, ch, spawned, sq, st, sres>>

collectVars == <<base, seen_names>>

scoreVars == <<sq, st, sres>>

(***************************************************************************)
(* Bounds of the model.                                                    *)
(***************************************************************************)
MaxQuery == 2

MaxText == 4

MaxScoreQuery == 3

NumDirs == 2

MaxFilesPerDir == 2

(***************************************************************************)
(* Characters and strings.                                                 *)
(***************************************************************************)
\* The characters of the model and their code points.
Ord(c) ==
    CASE c = "\t" -> 9
      [] c = "\f" -> 12
      [] c = " "  -> 32
      [] c = "%"  -> 37
      [] c = "A"  -> 65
      [] c = "Q"  -> 81
      [] c = "a"  -> 97
      [] c = "q"  -> 113

Alphabet == {"\t", "\f", " ", "%", "A", "Q", "a", "q"}

\* str.lower() on one character.
LowerChar(c) ==
    CASE c = "A" -> "a"
      [] c = "Q" -> "q"
      [] OTHER   -> c

\* str.lower()
Lower(s) == [k \in 1..Len(s) |-> LowerChar(s[k])]

\* ch.isprintable(): the space is printable, tab and form feed are not.
IsPrintable(c) == c \notin {"\t", "\f"}

\* str.isspace() on one character, the \s class of re.
IsSpace(c) == c \in {" ", "\t", "\f"}

\* [a-zA-Z@] of the field-code pattern.
IsFieldCodeChar(c) == c \in {"A", "Q", "a", "q"}

Min(a, b) == IF a < b THEN a ELSE b

Max(a, b) == IF a > b THEN a ELSE b

\* Python slice s[lo:hi] for 0 <= lo, hi <= len(s).
Slice(s, lo, hi) == IF hi <= lo THEN <<>> ELSE SubSeq(s, lo + 1, hi)

\* str.strip(): drop leading and trailing whitespace.
RECURSIVE LStrip(_)
LStrip(s) ==
    IF s # <<>> /\ IsSpace(Head(s)) THEN LStrip(Tail(s)) ELSE s

RECURSIVE RStrip(_)
RStrip(s) ==
    IF s # <<>> /\ IsSpace(s[Len(s)]) THEN RStrip(SubSeq(s, 1, Len(s) - 1)) ELSE s

Strip(s) == RStrip(LStrip(s))

\* t.startswith(q)
StartsWith(t, q) == Len(q) <= Len(t) /\ SubSeq(t, 1, Len(q)) = q

\* t.find(c, i): the first position >= i holding c, or -1.
RECURSIVE Find(_, _, _)
Find(t, c, i) ==
    IF i >= Len(t) THEN -1
    ELSE IF t[i + 1] = c THEN i
    ELSE Find(t, c, i + 1)

\* Python's order on strings: lexicographic by code point.
RECURSIVE StrLess(_, _)
StrLess(a, b) ==
    IF b = <<>> THEN FALSE
    ELSE IF a = <<>> THEN TRUE
    ELSE IF Ord(Head(a)) < Ord(Head(b)) THEN TRUE
    ELSE IF Ord(Head(a)) > Ord(Head(b)) THEN FALSE
    ELSE StrLess(Tail(a), Tail(b))

(***************************************************************************)
(* fuzzy_score                                                             *)
(***************************************************************************)
None == <<>>

Some(n) == <<n>>

\* ScoreWalk resuming the search at the matched position itself (i = pos).
RECURSIVE ScoreWalk_NoAdvance(_, _, _, _, _)
ScoreWalk_NoAdvance(q, t, k, i, score) ==
    IF k > Len(q) THEN Some(score + Len(t) - Len(q))
    ELSE LET pos == Find(t, q[k], i)
         IN  IF pos = -1 THEN None
             ELSE ScoreWalk_NoAdvance(q, t, k + 1, pos, score + (pos - i))

\* ScoreWalk going on to the next character when one is missing, unless it
\* is the last.
RECURSIVE ScoreWalk_SkipMissing(_, _, _, _, _)
ScoreWalk_SkipMissing(q, t, k, i, score) ==
    IF k > Len(q) THEN Some(score + Len(t) - Len(q))
    ELSE LET pos == Find(t, q[k], i)
         IN  IF pos = -1
             THEN IF k = Len(q) THEN None
                  ELSE ScoreWalk_SkipMissing(q, t, k + 1, i, score)
             ELSE ScoreWalk_SkipMissing(q, t, k + 1, pos + 1, score + (pos - i))

\* ScoreWalk adding len(q) - len(t) at the end.
RECURSIVE ScoreWalk_TrailingSign(_, _, _, _, _)
ScoreWalk_TrailingSign(q, t, k, i, score) ==
    IF k > Len(q) THEN Some(score + Len(q) - Len(t))
    ELSE LET pos == Find(t, q[k], i)
         IN  IF pos = -1 THEN None
             ELSE ScoreWalk_TrailingSign(q, t, k + 1, pos + 1, score + (pos - i))

\* ScoreWalk without the trailing characters added.
RECURSIVE ScoreWalk_NoTrailing(_, _, _, _, _)
ScoreWalk_NoTrailing(q, t, k, i, score) ==
    IF k > Len(q) THEN Some(score)
    ELSE LET pos == Find(t, q[k], i)
         IN  IF pos = -1 THEN None
             ELSE ScoreWalk_NoTrailing(q, t, k + 1, pos + 1, score + (pos - i))

\* The loop "for ch in q" of fuzzy_score from the k-th character of q on,
\* with the loop variables i and score.
RECURSIVE ScoreWalk(_, _, _, _, _)
ScoreWalk(q, t, k, i, score) ==
    IF k > Len(q) THEN Some(score + Len(t) - Len(q))
    ELSE LET pos == Find(t, q[k], i)
         IN  IF pos = -1 THEN None
             ELSE ScoreWalk(q, t, k + 1, pos + 1, score + (pos - i))

\* fuzzy_score without the startswith shortcut.
fuzzy_score_NoPrefix(qry, text) ==
    LET q == Lower(qry)
        t == Lower(text)
    IN  IF q = <<>> THEN Some(0)
        ELSE ScoreWalk(q, t, 1, 0, 0)

fuzzy_score(qry, text) ==
    LET q == Lower(qry)
        t == Lower(text)
    IN  IF q = <<>> THEN Some(0)
        ELSE IF StartsWith(t, q) THEN Some(0)
        ELSE ScoreWalk(q, t, 1, 0, 0)

(***************************************************************************)
(* Desktop files and the entry repository.                                 *)
(*                                                                         *)
(* A desktop file is given by what ConfigParser yields for it: whether it  *)
(* can be read and its booleans parse (readable), whether it has a         *)
(* [Desktop Entry] section, and the values of its keys ("" for an absent   *)
(* Exec, Comment or Categories key).  stem is the base name of the file    *)
(* without its extension.                                                  *)
(***************************************************************************)
File(stem, readable, section, hasName, Name, Exec, NoDisplay, Comment, Terminal, Categories) ==
    [stem |-> stem, readable |-> readable, section |-> section,
     hasName |-> hasName, Name |-> Name, Exec |-> Exec,
     NoDisplay |-> NoDisplay, Comment |-> Comment,
     Terminal |-> Terminal, Categories |-> Categories]

\* The desktop files the directories of the model are filled from.
FilePool ==
    { File(<<"a">>, TRUE, TRUE, TRUE, <<"q">>, <<"q">>, FALSE, <<>>, FALSE, <<>>),
      File(<<"q">>, TRUE, TRUE, TRUE, <<"Q">>, <<"q", " ", "%", "A">>, FALSE,
           <<"q", "\t", "a">>, TRUE, <<"A">>),
      File(<<"a", "q">>, TRUE, TRUE, FALSE, <<>>, <<"%", "q">>, FALSE, <<>>, FALSE, <<>>),
      File(<<"Q">>, TRUE, TRUE, TRUE, <<"q", "a">>, <<"q">>, TRUE, <<>>, FALSE, <<>>),
      File(<<"A">>, TRUE, TRUE, TRUE, <<"A">>, <<>>, FALSE, <<>>, FALSE, <<>>),
      File(<<"A", "A">>, FALSE, TRUE, TRUE, <<"A">>, <<"a">>, FALSE, <<>>, FALSE, <<>>) }

\* re.sub(r"%[a-zA-Z@]", "", s): leftmost, non-overlapping.
RECURSIVE StripFieldCodes(_)
StripFieldCodes(s) ==
    IF s = <<>> THEN <<>>
    ELSE IF Head(s) = "%" /\ Len(s) >= 2 /\ IsFieldCodeChar(s[2])
         THEN StripFieldCodes(SubSeq(s, 3, Len(s)))
    ELSE <<Head(s)>> \o StripFieldCodes(Tail(s))

\* re.sub(r"\s+", " ", s): every run of whitespace becomes one space.
RECURSIVE CollapseSpace(_)
CollapseSpace(s) ==
    IF s = <<>> THEN <<>>
    ELSE IF IsSpace(Head(s))
         THEN <<" ">> \o CollapseSpace(LStrip(s))
    ELSE <<Head(s)>> \o CollapseSpace(Tail(s))

sanitize_exec_field(exec_field) == Strip(CollapseSpace(StripFieldCodes(exec_field)))

clean_text(s) ==
    IF s = <<>> THEN <<>>
    ELSE Strip(CollapseSpace(SelectSeq(s, IsPrintable)))

DesktopEntry(name, exec, comment, term, path, no_display, categories) ==
    [name |-> name, exec |-> exec, comment |-> comment, terminal |-> term,
     path |-> path, no_display |-> no_display, categories |-> categories]

\* parse_desktop_file: <<>> for None, else <<entry>>.
parse_desktop_file(path, f) ==
    IF ~f.readable THEN <<>>
    ELSE IF ~f.section THEN <<>>
    ELSE IF f.Exec = <<>> THEN <<>>
    ELSE << DesktopEntry(IF f.hasName THEN f.Name ELSE f.stem,
                         sanitize_exec_field(f.Exec),
                         clean_text(f.Comment),
                         f.Terminal, path, f.NoDisplay, f.Categories) >>

\* NameKeyLess comparing the names as written.
NameKeyLess_CaseSensitive(a, b) == StrLess(a.name, b.name)

\* The key of entries.sort: x.name.lower()
NameKeyLess(a, b) == StrLess(Lower(a.name), Lower(b.name))

\* list.sort with the key name.lower(): stable insertion of x into a sorted list.
RECURSIVE InsertByName(_, _)
InsertByName(sorted, x) ==
    IF sorted = <<>> THEN <<x>>
    ELSE IF NameKeyLess(x, Head(sorted)) THEN <<x>> \o sorted
    ELSE <<Head(sorted)>> \o InsertByName(Tail(sorted), x)

RECURSIVE SortByName(_)
SortByName(s) ==
    IF s = <<>> THEN <<>>
    ELSE InsertByName(SortByName(SubSeq(s, 1, Len(s) - 1)), s[Len(s)])

\* The test "d.name in seen_names".
SeenName(seen, name) == name \in seen

\* The loop "for p in glob.glob(pattern)" over the listing of directory b
\* from its k-th file on; the loop state is seen_names and the list so far.
RECURSIVE ScanFiles(_, _, _, _, _)
ScanFiles(b, listing, k, seen, acc) ==
    IF k > Len(listing) THEN [seen |-> seen, acc |-> acc]
    ELSE LET d == parse_desktop_file(<<b, listing[k].stem>>, listing[k])
         IN  IF d = <<>> THEN ScanFiles(b, listing, k + 1, seen, acc)
             ELSE IF d[1].no_display THEN ScanFiles(b, listing, k + 1, seen, acc)
             ELSE IF SeenName(seen, d[1].name)
                  THEN ScanFiles(b, listing, k + 1, seen, acc)
             ELSE ScanFiles(b, listing, k + 1, seen \cup {d[1].name},
                            Append(acc, d[1]))

\* The listings a directory can have: up to MaxFilesPerDir distinct files of
\* the pool in the order glob returns them.
RECURSIVE Listings(_)
Listings(n) ==
    IF n = 0 THEN {<<>>}
    ELSE LET shorter == Listings(n - 1)
         IN  shorter \cup
             { Append(l, f) : l \in {x \in shorter : Len(x) = n - 1}, f \in FilePool }

DirListings == { l \in Listings(MaxFilesPerDir) :
                   \A i, j \in 1..Len(l) : i # j => l[i] # l[j] }

(***************************************************************************)
(* LauncherUI.update_filter                                                *)
(***************************************************************************)
\* texts = [e.name, e.comment, e.categories, e.exec]
Texts(e) == <<e.name, e.comment, e.categories, e.exec>>

\* BestFrom keeping the larger score (s > best).
RECURSIVE BestFrom_Largest(_, _, _, _)
BestFrom_Largest(q, texts, k, best) ==
    IF k > Len(texts) THEN best
    ELSE LET s == fuzzy_score(q, texts[k])
         IN  IF s = None THEN BestFrom_Largest(q, texts, k + 1, best)
             ELSE IF best = None \/ s[1] > best[1]
                  THEN BestFrom_Largest(q, texts, k + 1, s)
             ELSE BestFrom_Largest(q, texts, k + 1, best)

\* The loop "for t in texts" from the k-th text on, with the loop variable best.
RECURSIVE BestFrom(_, _, _, _)
BestFrom(q, texts, k, best) ==
    IF k > Len(texts) THEN best
    ELSE LET s == fuzzy_score(q, texts[k])
         IN  IF s = None THEN BestFrom(q, texts, k + 1, best)
             ELSE IF best = None \/ s[1] < best[1]
                  THEN BestFrom(q, texts, k + 1, s)
             ELSE BestFrom(q, texts, k + 1, best)

\* The loop "for e in self.entries": the list scored before it is sorted.
RECURSIVE ScoredFrom(_, _, _)
ScoredFrom(q, ents, k) ==
    IF k > Len(ents) THEN <<>>
    ELSE LET best == BestFrom(q, Texts(ents[k]), 1, None)
         IN  IF best # None
             THEN <<[e |-> ents[k], s |-> best[1]]>> \o ScoredFrom(q, ents, k + 1)
             ELSE ScoredFrom(q, ents, k + 1)

\* The key of scored.sort: (x[1], x[0].name.lower()), compared as tuples.
ScoredKeyLess(a, b) ==
    \/ a.s < b.s
    \/ a.s = b.s /\ StrLess(Lower(a.e.name), Lower(b.e.name))

\* InsertScored putting x in front of the elements with an equal key.
RECURSIVE InsertScored_Unstable(_, _)
InsertScored_Unstable(sorted, x) ==
    IF sorted = <<>> THEN <<x>>
    ELSE IF ~ScoredKeyLess(Head(sorted), x) THEN <<x>> \o sorted
    ELSE <<Head(sorted)>> \o InsertScored_Unstable(Tail(sorted), x)

\* list.sort is stable: x goes behind every element whose key is not greater.
RECURSIVE InsertScored(_, _)
InsertScored(sorted, x) ==
    IF sorted = <<>> THEN <<x>>
    ELSE IF ScoredKeyLess(x, Head(sorted)) THEN <<x>> \o sorted
    ELSE <<Head(sorted)>> \o InsertScored(Tail(sorted), x)

RECURSIVE SortScored(_)
SortScored(s) ==
    IF s = <<>> THEN <<>>
    ELSE InsertScored(SortScored(SubSeq(s, 1, Len(s) - 1)), s[Len(s)])

\* Lines 187-200 of update_filter: the rank step for the local query q.
Rank(q, ents) == SortScored(ScoredFrom(q, ents, 1))

\* FilterQuery without the strip.
FilterQuery_NoStrip(qry) == qry

\* The query update_filter matches with: q = self.query.strip()
FilterQuery(qry) == Strip(qry)

\* The clamp at the end of update_filter.
ClampSelected(sel, flt) ==
    IF sel >= Len(flt) THEN Max(0, Len(flt) - 1) ELSE sel

\* update_filter as a step on the fields of LauncherUI, for the new query qry.
update_filter(qry) ==
    /\ filtered' = Rank(FilterQuery(qry), entries)
    /\ selected' = ClampSelected(selected, filtered')

\* Python indexing seq[i], negative i counting from the end.
PyIndex(seq, i) == IF i >= 0 THEN seq[i + 1] ELSE seq[Len(seq) + i + 1]

(***************************************************************************)
(* find_terminal and LauncherUI.launch                                     *)
(***************************************************************************)
TERMINAL_CANDIDATES ==
    <<"kitty", "alacritty", "st", "xterm", "urxvt", "gnome-terminal", "konsole">>

PREFER_TERMINAL_FOR_TERMINAL_ENTRIES == TRUE

\* No terminal emulator: the None of find_terminal.
NoTerminal == ""

\* find_terminal where shutil.which succeeds for the programs of installed.
RECURSIVE FindTerminalFrom(_, _)
FindTerminalFrom(installed, k) ==
    IF k > Len(TERMINAL_CANDIDATES) THEN NoTerminal
    ELSE IF TERMINAL_CANDIDATES[k] \in installed THEN TERMINAL_CANDIDATES[k]
    ELSE FindTerminalFrom(installed, k + 1)

find_terminal(installed) == FindTerminalFrom(installed, 1)

\* The sets of installed programs the model starts the launcher with.
InstalledSets == { {}, {"xterm", "konsole"} }

\* The three argument vectors launch hands to subprocess.Popen:
\*   "term_sh_c"  [term, "-e", "sh", "-c", detached_cmd]
\*   "term_e"     [term, "-e", detached_cmd]
\*   "sh_c"       ["sh", "-c", detached_cmd]
PopenKinds == {"term_sh_c", "term_e", "sh_c"}

Process(kind, raw_cmd) == [argv |-> kind, cmd |-> raw_cmd]

\* subprocess.Popen(["sh", "-c", detached_cmd]) outside any try: an exception
\* leaves launch and run.
DirectSpawn(raw_cmd, blocked) ==
    IF "sh_c" \in blocked
    THEN /\ pc' = "crashed"
         /\ spawned' = spawned
    ELSE /\ pc' = "done"
         /\ spawned' = Append(spawned, Process("sh_c", raw_cmd))

\* launch(entry, in_terminal) followed by the return of run; Popen raises for
\* the argument vectors of blocked.
launch(entry, in_terminal, blocked) ==
    LET raw_cmd == Strip(entry.exec)
    IN  IF raw_cmd = <<>>
        THEN /\ pc' = "done"
             /\ spawned' = spawned
        ELSE IF in_terminal \/ (entry.terminal /\ PREFER_TERMINAL_FOR_TERMINAL_ENTRIES)
        THEN IF terminal = NoTerminal
             THEN DirectSpawn(raw_cmd, blocked)
             ELSE IF "term_sh_c" \notin blocked
                  THEN /\ pc' = "done"
                       /\ spawned' = Append(spawned, Process("term_sh_c", raw_cmd))
             ELSE IF "term_e" \notin blocked
                  THEN /\ pc' = "done"
                       /\ spawned' = Append(spawned, Process("term_e", raw_cmd))
             ELSE DirectSpawn(raw_cmd, blocked)
        ELSE DirectSpawn(raw_cmd, blocked)

(***************************************************************************)
(* main, LauncherUI.__init__ and the loop of LauncherUI.run                *)
(***************************************************************************)
\* The printable characters the model types.
TypedChars == {"a", "q", "Q", " "}

\* The characters get_wch returns for the erase keys: "\x7f" and "\b".
EraseChars == {"DEL", "BS"}

\* Characters that are neither handled nor printable (form feed).
IgnoredChars == {"\f"}

KEY_PAGE_STEP == 10

\* One round of "for base in paths" of collect_desktop_entries: the files
\* glob lists for the directory are parsed, filtered and collected.
ScanDir ==
    /\ pc = "collect"
    /\ base <= NumDirs
    /\ \E listing \in DirListings :
         LET r == ScanFiles(base, listing, 1, seen_names, entries)
         IN  /\ seen_names' = r.seen
             /\ entries' = r.acc
    /\ base' = base + 1
    /\ UNCHANGED <<pc, query, filtered, selected, terminal, ch, spawned, scoreVars>>

\* The end of collect_desktop_entries (sort by name.lower(), return) and the
\* rest of main: with no entry, print the notice and leave; else construct
\* LauncherUI (query "", selected 0, find_terminal, update_filter) and run.
StartUI ==
    /\ pc = "collect"
    /\ base > NumDirs
    /\ entries' = SortByName(entries)
    /\ seen_names' = {}
    /\ IF entries' = <<>>
       THEN /\ pc' = "noentries"
            /\ UNCHANGED <<query, filtered, selected, terminal>>
       ELSE /\ pc' = "running"
            /\ query' = <<>>
            /\ \E installed \in InstalledSets : terminal' = find_terminal(installed)
            /\ filtered' = Rank(FilterQuery(<<>>), entries')
            /\ selected' = ClampSelected(0, filtered')
    /\ UNCHANGED <<base, ch, spawned, scoreVars>>

\* self.draw(); ch = self.stdscr.get_wch()
ReadKey(c) ==
    /\ pc = "running"
    /\ ch' = c
    /\ UNCHANGED <<entries, terminal, collectVars, scoreVars>>

\* KeyEnter returning from run when the list is empty.
KeyEnter_ReturnsOnEmpty ==
    /\ ReadKey("\n")
    /\ IF filtered = <<>>
       THEN /\ pc' = "done"
            /\ UNCHANGED <<query, filtered, selected, spawned>>
       ELSE /\ \E blocked \in SUBSET PopenKinds :
                 launch(PyIndex(filtered, selected).e, FALSE, blocked)
            /\ UNCHANGED <<query, filtered, selected>>

\* ch == "\n"
KeyEnter ==
    /\ ReadKey("\n")
    /\ IF filtered = <<>>
       THEN UNCHANGED <<pc, query, filtered, selected, spawned>>
       ELSE /\ \E blocked \in SUBSET PopenKinds :
                 launch(PyIndex(filtered, selected).e, FALSE, blocked)
            /\ UNCHANGED <<query, filtered, selected>>

\* ch == "\x1b"
KeyEscape ==
    /\ ReadKey("ESC")
    /\ pc' = "done"
    /\ UNCHANGED <<query, filtered, selected, spawned>>

\* KeyTab typing a space into the query.
KeyTab_Types ==
    /\ ReadKey("\t")
    /\ Len(query) < MaxQuery
    /\ query' = Append(query, " ")
    /\ filtered' = Rank(query', entries)
    /\ selected' = ClampSelected(selected, filtered')
    /\ UNCHANGED <<pc, spawned>>

\* ch == "\t"
KeyTab ==
    /\ ReadKey("\t")
    /\ UNCHANGED <<pc, query, filtered, selected, spawned>>

\* self.query = self.query[:-1]; self.update_filter()
EraseLast ==
    /\ query' = Slice(query, 0, Len(query) - 1)
    /\ update_filter(query')
    /\ UNCHANGED <<pc, spawned>>

\* ch in ("\x7f", "\b", "\x08", "\u007f")
KeyErase(c) ==
    /\ ReadKey(c)
    /\ EraseLast

\* KeyChar leaving the loop on q and Q.
KeyChar_QuitsOnQ(c) ==
    /\ ReadKey(c)
    /\ IF c \in {"q", "Q"}
       THEN /\ pc' = "done"
            /\ UNCHANGED <<query, filtered, selected, spawned>>
       ELSE IF IsPrintable(c)
       THEN /\ Len(query) < MaxQuery
            /\ query' = Append(query, c)
            /\ update_filter(query')
            /\ UNCHANGED <<pc, spawned>>
       ELSE UNCHANGED <<pc, query, filtered, selected, spawned>>

\* KeyChar assigning the character to the query (= instead of +=).
KeyChar_Replaces(c) ==
    /\ ReadKey(c)
    /\ IF IsPrintable(c)
       THEN /\ Len(query) < MaxQuery
            /\ query' = <<c>>
            /\ update_filter(query')
            /\ UNCHANGED <<pc, spawned>>
       ELSE UNCHANGED <<pc, query, filtered, selected, spawned>>

\* any other str: appended when printable, else dropped
KeyChar(c) ==
    /\ ReadKey(c)
    /\ IF IsPrintable(c)
       THEN /\ Len(query) < MaxQuery
            /\ query' = Append(query, c)
            /\ update_filter(query')
            /\ UNCHANGED <<pc, spawned>>
       ELSE UNCHANGED <<pc, query, filtered, selected, spawned>>

\* ch in (curses.KEY_BACKSPACE,)
KeyBackspace ==
    /\ ReadKey("KEY_BACKSPACE")
    /\ EraseLast

KeyUp ==
    /\ ReadKey("KEY_UP")
    /\ selected' = Max(0, selected - 1)
    /\ UNCHANGED <<pc, query, filtered, spawned>>

\* KeyDown without the upper clamp.
KeyDown_NoClamp ==
    /\ ReadKey("KEY_DOWN")
    /\ selected' = selected + 1
    /\ UNCHANGED <<pc, query, filtered, spawned>>

KeyDown ==
    /\ ReadKey("KEY_DOWN")
    /\ selected' = Min(Max(0, Len(filtered) - 1), selected + 1)
    /\ UNCHANGED <<pc, query, filtered, spawned>>

KeyNPage ==
    /\ ReadKey("KEY_NPAGE")
    /\ selected' = Min(Len(filtered) - 1, selected + KEY_PAGE_STEP)
    /\ UNCHANGED <<pc, query, filtered, spawned>>

KeyPPage ==
    /\ ReadKey("KEY_PPAGE")
    /\ selected' = Max(0, selected - KEY_PAGE_STEP)
    /\ UNCHANGED <<pc, query, filtered, spawned>>

\* any other key code: no branch of the chain applies
KeyOther ==
    /\ ReadKey("KEY_OTHER")
    /\ UNCHANGED <<pc, query, filtered, selected, spawned>>

Init ==
    /\ pc = "collect"
    /\ base = 1
    /\ seen_names = {}
    /\ entries = <<>>
    /\ query = <<>>
    /\ filtered = <<>>
    /\ selected = 0
    /\ terminal = NoTerminal
    /\ ch = ""
    /\ spawned = <<>>
    /\ sq = <<>>
    /\ st = <<>>
    /\ sres = None

Next ==
    \/ ScanDir
    \/ StartUI
    \/ KeyEnter
    \/ KeyEscape
    \/ KeyTab
    \/ \E c \in EraseChars : KeyErase(c)
    \/ \E c \in TypedChars \cup IgnoredChars : KeyChar(c)
    \/ KeyBackspace
    \/ KeyUp
    \/ KeyDown
    \/ KeyNPage
    \/ KeyPPage
    \/ KeyOther

Spec == Init /\ [][Next]_vars

(***************************************************************************)
(* The scorer on its own: fuzzy_score applied to every query and text of   *)
(* the bounded sets.                                                       *)
(***************************************************************************)
ScoreChars == {"a", "A", "q"}

StringsUpTo(S, n) == UNION { [1..k -> S] : k \in 0..n }

InitScore ==
    /\ pc = "call"
    /\ base = 1
    /\ seen_names = {}
    /\ entries = <<>>
    /\ query = <<>>
    /\ filtered = <<>>
    /\ selected = 0
    /\ terminal = NoTerminal
    /\ ch = ""
    /\ spawned = <<>>
    /\ sq \in StringsUpTo(ScoreChars, MaxScoreQuery)
    /\ st \in StringsUpTo(ScoreChars, MaxText)
    /\ sres = None

CallScore ==
    /\ pc = "call"
    /\ sres' = fuzzy_score(sq, st)
    /\ pc' = "returned"
    /\ UNCHANGED <<collectVars, entries, query, filtered, selected, terminal, ch, spawned, sq, st>>

NextScore == CallScore

SpecScore == InitScore /\ [][NextScore]_vars

(***************************************************************************)
(* Properties.                                                             *)
(***************************************************************************)
\* The values of ch after an event that edits the query.
EraseKeys == EraseChars \cup {"KEY_BACKSPACE"}

EditKeys == TypedChars \cup EraseKeys

\* q is a subsequence of t: some strictly increasing choice of positions of
\* t spells q.
IsSubsequence(q, t) ==
    \E f \in [1..Len(q) -> 1..Len(t)] :
        /\ \A k \in 1..Len(q) : t[f[k]] = q[k]
        /\ \A k \in 1..(Len(q) - 1) : f[k] < f[k + 1]

\* t starts with q when case is ignored.
IsPrefixIgnoringCase(q, t) ==
    /\ Len(q) <= Len(t)
    /\ \A k \in 1..Len(q) : LowerChar(q[k]) = LowerChar(t[k])

\* The scores other than None that the fields of e get for the query q.
FieldScores(q, e) ==
    { fuzzy_score(q, Texts(e)[k])[1] :
        k \in { j \in 1..4 : fuzzy_score(q, Texts(e)[j]) # None } }

\* The position of the entry e in the candidate list.
EntryPos(e) == CHOOSE k \in 1..Len(entries) : entries[k] = e

\* C1: in every state of the loop, 0 <= selected < len(filtered), or
\* filtered is empty and selected is 0.
C1_SelectedInRange ==
    pc \in {"running", "done", "crashed"} =>
        \/ 0 <= selected /\ selected < Len(filtered)
        \/ filtered = <<>> /\ selected = 0

\* C2 as stated: after a printable-character or backspace event the list is
\* the rank of the complete candidate set for exactly the query of the state.
C2_FilteredRanksExactQuery ==
    (pc = "running" /\ ch \in EditKeys) => filtered = Rank(query, entries)

\* C2 as amended: after a printable-character or backspace event the list is
\* the rank of the complete candidate set for the query of the state with
\* its leading and trailing spaces stripped; a printable character is
\* appended to the query, a backspace removes its last character and leaves
\* an empty query empty.
C2_FilteredRanksStrippedQuery ==
    /\ []((pc = "running" /\ ch \in EditKeys) =>
            filtered = Rank(Strip(query), entries))
    /\ [][(pc = "running" /\ ch' \in TypedChars) => query' = Append(query, ch')]_vars
    /\ [][(pc = "running" /\ ch' \in EraseKeys) =>
            query' = IF query = <<>> THEN <<>>
                     ELSE SubSeq(query, 1, Len(query) - 1)]_vars

\* A trailing space was typed behind a matching query: the list is still the
\* one of the query without the space.
C2_Witness ==
    /\ pc = "running"
    /\ ch = " "
    /\ query = <<"q", " ">>
    /\ filtered # <<>>
    /\ filtered # Rank(query, entries)

\* C3: fuzzy_score(q, t) is 0 when q is empty and when t starts with q
\* ignoring case, in particular for t = q.
C3_PrefixScoresZero ==
    (pc = "returned" /\ (sq = <<>> \/ IsPrefixIgnoringCase(sq, st))) => sres = Some(0)

\* A non-empty query that is a proper prefix of the text up to case.
C3_Witness ==
    /\ pc = "returned"
    /\ sq = <<"A", "q">>
    /\ st = <<"a", "q", "a">>
    /\ sres = Some(0)

\* C4: fuzzy_score(q, t) is None exactly when q is not a subsequence of t,
\* ignoring case.
C4_NoMatchIffNotSubsequence ==
    pc = "returned" => (sres = None <=> ~IsSubsequence(Lower(sq), Lower(st)))

\* The first a of "aqa" comes before the q: the walk has to take the later one.
C4_Witness ==
    /\ pc = "returned"
    /\ sq = <<"q", "A">>
    /\ st = <<"a", "q", "a">>
    /\ sres # None

\* C5: the list holds exactly the candidates with a field that scores other
\* than None for the query of the rank step, each once, paired with the
\* least of its field scores.
C5_SurvivorsAndMinScore ==
    pc = "running" =>
        LET q == Strip(query)
        IN  /\ \A k \in 1..Len(entries) :
                   (FieldScores(q, entries[k]) # {})
                       <=> (\E i \in 1..Len(filtered) : filtered[i].e = entries[k])
            /\ \A i \in 1..Len(filtered) :
                   /\ \E k \in 1..Len(entries) : entries[k] = filtered[i].e
                   /\ \A j \in 1..Len(filtered) : filtered[j].e = filtered[i].e => j = i
                   /\ filtered[i].s \in FieldScores(q, filtered[i].e)
                   /\ \A x \in FieldScores(q, filtered[i].e) : filtered[i].s <= x

\* A query that drops a candidate and keeps one whose fields score differently.
C5_Witness ==
    /\ pc = "running"
    /\ Strip(query) # <<>>
    /\ filtered # <<>>
    /\ Len(filtered) < Len(entries)
    /\ \E i \in 1..Len(filtered) :
           Cardinality(FieldScores(Strip(query), filtered[i].e)) > 1

\* C6: the list is ordered by score, then by lower-cased name; candidates
\* equal on both keep the order they have in the candidate list.
C6_SortedStable ==
    pc = "running" =>
        \A i, j \in 1..Len(filtered) :
            i < j =>
                \/ filtered[i].s < filtered[j].s
                \/ /\ filtered[i].s = filtered[j].s
                   /\ StrLess(Lower(filtered[i].e.name), Lower(filtered[j].e.name))
                \/ /\ filtered[i].s = filtered[j].s
                   /\ Lower(filtered[i].e.name) = Lower(filtered[j].e.name)
                   /\ EntryPos(filtered[i].e) < EntryPos(filtered[j].e)

\* Two candidates equal on both keys and a third with another score.
C6_Witness ==
    /\ pc = "running"
    /\ \E i, j \in 1..Len(filtered) :
           /\ i < j
           /\ filtered[i].s = filtered[j].s
           /\ Lower(filtered[i].e.name) = Lower(filtered[j].e.name)
    /\ \E i, j \in 1..Len(filtered) : filtered[i].s < filtered[j].s

\* C7: the loop is left only on Escape or on Enter with a non-empty list;
\* a printable character, q and Q included, is appended to the query and
\* the loop goes on.
C7_OnlyConfirmOrCancelLeave ==
    /\ [][(pc = "running" /\ pc' # "running") =>
            (ch' = "ESC" \/ (ch' = "\n" /\ filtered # <<>>))]_vars
    /\ [][(pc = "running" /\ ch' \in TypedChars) =>
            (pc' = "running" /\ query' = Append(query, ch'))]_vars

\* Both q and Q were typed and the loop is still reading.
C7_Witness ==
    /\ pc = "running"
    /\ query = <<"q", "Q">>
    /\ ch = "Q"

\* C8: Enter on an empty list changes neither query, list, selected index
\* nor the processes started, and the loop goes on.
C8_ConfirmOnEmptyIsNoOp ==
    [][(pc = "running" /\ ch' = "\n" /\ filtered = <<>>) =>
          /\ pc' = "running"
          /\ query' = query
          /\ filtered' = filtered
          /\ selected' = selected
          /\ spawned' = spawned]_vars

\* Enter was read with an empty list.
C8_Witness ==
    /\ pc = "running"
    /\ ch = "\n"
    /\ filtered = <<>>
    /\ query # <<>>
    /\ spawned = <<>>

\* C9: Enter on a non-empty list ends the loop with 0 <= selected <
\* len(filtered) and exactly one process started, running the command of
\* the candidate at position selected.
C9_ConfirmLaunchesSelected ==
    (ch = "\n" /\ pc = "done") =>
        /\ 0 <= selected
        /\ selected < Len(filtered)
        /\ Len(spawned) = 1
        /\ spawned[1].cmd = filtered[selected + 1].e.exec

\* C10: no two candidates of the collected list have names that are equal
\* when case is ignored.
C10_NamesUniqueIgnoringCase ==
    pc \in {"running", "done", "crashed"} =>
        \A i, j \in 1..Len(entries) :
            i # j => Lower(entries[i].name) # Lower(entries[j].name)

\* The values of ch after a navigation event.
NavKeys == {"KEY_UP", "KEY_DOWN", "KEY_NPAGE", "KEY_PPAGE"}

\* The candidates of a ranked list.
Candidates(flt) == { flt[i].e : i \in 1..Len(flt) }

\* The list of all candidates with score 0, in the order of the candidate list.
FullList == [i \in 1..Len(entries) |-> [e |-> entries[i], s |-> 0]]

\* The selected index after n move-down events on a list of length len.
RECURSIVE MoveDownTimes(_, _, _)
MoveDownTimes(sel, len, n) ==
    IF n = 0 THEN sel
    ELSE MoveDownTimes(Min(Max(0, len - 1), sel + 1), len, n - 1)

\* The selected index after n move-up events.
RECURSIVE MoveUpTimes(_, _)
MoveUpTimes(sel, n) ==
    IF n = 0 THEN sel ELSE MoveUpTimes(Max(0, sel - 1), n - 1)

\* The longest string appended to a query when monotonicity is checked.
MaxAppend == 1

\* C11: every candidate of the collected list has a non-empty exec command.
C11_ExecNonEmpty ==
    pc \in {"running", "done", "crashed"} =>
        \A i \in 1..Len(entries) : entries[i].exec # <<>>

\* C12 as stated: the state with an empty query, the full list of score 0 in
\* name order and selected index 0 is the initial state of the loop and is
\* reached again whenever the query is erased back to empty.
C12_ErasedQueryRestoresInitialState ==
    (pc = "running" /\ query = <<>> /\ ch \in EraseKeys) =>
        /\ filtered = FullList
        /\ selected = 0

\* C12 as amended: with an empty query the list holds every candidate with
\* score 0 in ascending order of lower-cased name, initially and whenever
\* the query is erased back to empty; the loop starts with query empty and
\* selected index 0, and erasing leaves the selected index at its clamped
\* value.
C12_EmptyQueryListsAll ==
    /\ []((pc = "running" /\ query = <<>>) =>
            /\ filtered = FullList
            /\ \A i, j \in 1..Len(filtered) :
                   i < j => ~StrLess(Lower(filtered[j].e.name), Lower(filtered[i].e.name)))
    /\ [][(pc = "collect" /\ pc' = "running") => (query' = <<>> /\ selected' = 0)]_vars
    /\ [][(pc = "running" /\ ch' \in EraseKeys) =>
            selected' = ClampSelected(selected, filtered')]_vars

\* The query was erased back to empty with the second row selected, and the
\* names of the list differ in more than case.
C12_Witness ==
    /\ pc = "running"
    /\ query = <<>>
    /\ ch \in EraseKeys
    /\ selected = 1
    /\ Len(filtered) = 3

\* C13: when fuzzy_score(q, t) is None, fuzzy_score(q + s, t) is None for
\* every appended string s.
C13_AppendKeepsNoMatch ==
    (pc = "returned" /\ sres = None) =>
        \A s \in StringsUpTo(ScoreChars, MaxAppend) : fuzzy_score(sq \o s, st) = None

\* A query that misses only because of its order, and a text that holds
\* every character that can be appended.
C13_Witness ==
    /\ pc = "returned"
    /\ sq = <<"q", "a">>
    /\ st = <<"A", "q">>
    /\ sres = None

\* C14: running update_filter again in any state of the loop gives the same
\* list and the same selected index; no event changes the candidate list.
C14_RerunChangesNothing ==
    /\ [](pc = "running" =>
            /\ Rank(FilterQuery(query), entries) = filtered
            /\ ClampSelected(selected, filtered) = selected)
    /\ [][pc = "running" => entries' = entries]_vars

\* update_filter ran with the query unchanged (backspace on the empty
\* query) while the last of several rows was selected.
C14_Witness ==
    /\ pc = "running"
    /\ ch = "KEY_BACKSPACE"
    /\ query = <<>>
    /\ selected >= 1
    /\ selected = Len(filtered) - 1

\* C15: page down leaves the selected index where ten move-down events
\* would, page up where ten move-up events would, in every state.
C15_PageIsTenMoves ==
    /\ [][(pc = "running" /\ ch' = "KEY_NPAGE") =>
            selected' = MoveDownTimes(selected, Len(filtered), KEY_PAGE_STEP)]_vars
    /\ [][(pc = "running" /\ ch' = "KEY_PPAGE") =>
            selected' = MoveUpTimes(selected, KEY_PAGE_STEP)]_vars

\* C16: no score is negative, and a non-empty query that is a subsequence
\* of the text without being its prefix scores at least 1.
C16_NonPrefixScoresPositive ==
    pc = "returned" =>
        /\ sres # None => sres[1] >= 0
        /\ (/\ sq # <<>>
            /\ IsSubsequence(Lower(sq), Lower(st))
            /\ ~IsPrefixIgnoringCase(sq, st)) => (sres # None /\ sres[1] >= 1)

\* The query is found at the very end of the text, behind one skipped
\* character.
C16_Witness ==
    /\ pc = "returned"
    /\ sq = <<"q">>
    /\ st = <<"A", "q">>
    /\ sres = Some(2)

\* C17 as stated: for a non-empty query that is a prefix of the text, the
\* general walk yields 0 as well.
C17_WalkScoresPrefixZero ==
    (pc = "returned" /\ sq # <<>> /\ IsPrefixIgnoringCase(sq, st)) =>
        ScoreWalk(Lower(sq), Lower(st), 1, 0, 0) = Some(0)

\* C17 as amended: for a non-empty query that is a prefix of the text,
\* fuzzy_score is 0 and the general walk yields len(t) - len(q), which is 0
\* only when the text is no longer than the query.
C17_WalkScoresPrefixByLength ==
    (pc = "returned" /\ sq # <<>> /\ IsPrefixIgnoringCase(sq, st)) =>
        /\ sres = Some(0)
        /\ ScoreWalk(Lower(sq), Lower(st), 1, 0, 0) = Some(Len(st) - Len(sq))

\* A proper prefix: the walk alone would score it 2.
C17_Witness ==
    /\ pc = "returned"
    /\ sq = <<"a">>
    /\ st = <<"A", "q", "q">>
    /\ sres = Some(0)

\* C18: no failure of a spawn attempt leaves launch.
C18_LaunchNeverRaises == pc # "crashed"

\* C19: navigation and tab leave query and list as they are; a step of the
\* loop that changes the query or the list is a printable character or a
\* backspace.
C19_OnlyEditsChangeQueryAndList ==
    /\ [][(pc = "running" /\ ch' \in NavKeys \cup {"\t"}) =>
            (query' = query /\ filtered' = filtered)]_vars
    /\ [][(pc = "running" /\ (query' # query \/ filtered' # filtered)) =>
            ch' \in EditKeys]_vars

\* A navigation key moved the selection on a filtered list.
C19_Witness ==
    /\ pc = "running"
    /\ ch = "KEY_DOWN"
    /\ selected = 1
    /\ query = <<"q">>

\* C20: a printable character leaves a subset of the candidates listed
\* before it, a backspace a superset.
C20_TypingNarrowsErasingWidens ==
    /\ [][(pc = "running" /\ ch' \in TypedChars) =>
            Candidates(filtered') \subseteq Candidates(filtered)]_vars
    /\ [][(pc = "running" /\ ch' \in EraseKeys) =>
            Candidates(filtered) \subseteq Candidates(filtered')]_vars

\* A second character dropped some but not all of the candidates.
C20_Witness ==
    /\ pc = "running"
    /\ ch = "q"
    /\ query = <<"a", "q">>
    /\ filtered # <<>>
    /\ Len(filtered) < Len(entries)

====
